---- MODULE Spec2Model ----
(***************************************************************************)
(* Drift monitoring and leakage-safe windowing of the                      *)
(* high-propensity-prediction repository.                                  *)
(*                                                                         *)
(* Each component of the repository is a function over explicit inputs.   *)
(* A component's inputs are drawn in its initial predicate, its steps are  *)
(* actions, and every component has its own specification:                 *)
(*   SpecWindow    generate_time_series_labels (both variants)             *)
(*   SpecConcept   detect_concept_drift_recall_drop                        *)
(*   SpecDecision  check_drift_decision / check_retrain_decision           *)
(*   SpecDrift     detect_drift                                            *)
(*   SpecPsi       calculate_psi (both variants)                           *)
(*   SpecBaseline  detect_concept_drift_recall_drop on a long series       *)
(*   SpecConcurrent       two concurrent calls of detect_drift             *)
(*   SpecRetrainPipeline  daily_drift_check_and_retrain                    *)
(*   SpecTrainingPipeline training_pipeline                                *)
(*   SpecSplit            split_data_by_time_series                        *)
(*   SpecEndToEnd         detect_drift, flag logged, check_retrain_decision *)
(* Numbers: timestamps and dates are whole days; real quantities are kept  *)
(* as exact integers or fractions (scaled where stated).                   *)
(***************************************************************************)
EXTENDS Integers, Sequences, FiniteSets

\* ------------------------------------------------------------------ bounds
\* longest event log handed to generate_time_series_labels
MaxEvents == 2
\* latest event timestamp (days)
MaxTs == 3
\* largest observation / prediction span (days)
MaxSpan == 2
\* latest date of the metric series (days)
MaxDate == 4
\* most rows in a drift log, and its latest check date
MaxLogRows == 2
MaxLogDate == 2
\* most feature columns handed to detect_drift
MaxFeatures == 2
\* long metric series: observations older than the BaselineLimit most recent
MaxOlder == 2
\* calculate_psi: largest sample value, largest sample, most buckets
MaxVal == 3
MaxN == 3
MaxBuckets == 3
\* most sliding windows of a training run
MaxWindows == 2
\* split_data_by_time_series: most rows of the dataset, largest gap and
\* prediction_window
MaxRows == 3
MaxGap == 2
MaxPredictionWindow == 2

\* ------------------------------------------------------ program constants
\* LIMIT 30 of baseline_query
BaselineLimit == 30
\* detect_drift: avg_psi > 0.2, avg_psi > 0.1 (hundredths)
PsiStrongPct == 20
PsiWeakPct == 10
\* detect_drift: correlation < 0.1, correlation < 0.3 (tenths)
CorrStrongTenths == 1
CorrWeakTenths == 3

\* ------------------------------------------------------- optional values
\* Python None / SQL NULL / NaN: the empty sequence; a present value v: <<v>>
None == <<>>
Some(v) == <<v>>
IsNone(o) == o = <<>>
Val(o) == o[1]

\* =========================================================================
\* Window Builder: generate_time_series_labels
\* =========================================================================
VARIABLES
    w_variant,        \* "split": time_series_split.py, "component": generate_time_series_labels.py
    df,               \* the event log handed in (rows in log order)
    df_ts_dtype,      \* dtype of the caller's timestamp column
    observation_days, \* observation_window_days / observation_days
    prediction_days,  \* prediction_window_days / prediction_days
    w_pc,             \* "start", "loop", "done"
    sorted_df,        \* df after sort_values([user_id_col, timestamp_col])
    w_i,              \* rows of sorted_df already visited by the two loops
    obs_start, obs_end, pred_end,   \* locals of the last iteration
    obs_window, pred_window,        \* row indexes (in user_df) of the two filters
    label,
    samples           \* the list `samples`

wvars == <<w_variant, df, df_ts_dtype, observation_days, prediction_days, w_pc,
           sorted_df, w_i, obs_start, obs_end, pred_end, obs_window,
           pred_window, label, samples>>

Users == {1, 2}
EventTypes == {"purchase", "view"}
Timestamps == 0 .. MaxTs
Spans == 0 .. MaxSpan
Events == [user_id : Users, ts : Timestamps, event : EventTypes]

SeqsUpTo(S, n) == UNION {[1 .. m -> S] : m \in 0 .. n}

\* lexicographic order of sort_values(by=[user_id_col, timestamp_col])
KeyLeq(a, b) == \/ a.user_id < b.user_id
                \/ a.user_id = b.user_id /\ a.ts <= b.ts

\* e put behind every row of the sorted s that does not come after it
InsertSorted(s, e) ==
    LET k == Cardinality({j \in 1 .. Len(s) : KeyLeq(s[j], e)})
    IN  SubSeq(s, 1, k) \o <<e>> \o SubSeq(s, k + 1, Len(s))

RECURSIVE SortValues(_)
SortValues(s) ==
    IF s = <<>> THEN <<>>
    ELSE InsertSorted(SortValues(SubSeq(s, 1, Len(s) - 1)), s[Len(s)])

\* the group of one user in df.groupby(user_id_col), after reset_index(drop=True)
UserDf(sdf, u) == SelectSeq(sdf, LAMBDA r : r.user_id = u)

\* user_df[(ts >= obs_start) & (ts < obs_end)], as the set of its row indexes
ObsWindowMutant(user_df, start, end) ==
    {j \in 1 .. Len(user_df) : user_df[j].ts >= start /\ user_df[j].ts <= end}
ObsWindow(user_df, start, end) ==
    {j \in 1 .. Len(user_df) : user_df[j].ts >= start /\ user_df[j].ts < end}

\* user_df[(ts >= obs_end) & (ts < pred_end)], as the set of its row indexes
PredWindowMutant(user_df, start, end) ==
    {j \in 1 .. Len(user_df) : user_df[j].ts >= start /\ user_df[j].ts <= end}
PredWindow(user_df, start, end) ==
    {j \in 1 .. Len(user_df) : user_df[j].ts >= start /\ user_df[j].ts < end}

\* int((pred_window[event_col] == 'purchase').any())
Label(user_df, window) ==
    IF \E j \in window : user_df[j].event = "purchase" THEN 1 ELSE 0

\* the dict appended to samples
Sample(variant, u, start, end, lab, window) ==
    IF variant = "split"
    THEN [user_id |-> u, obs_start |-> start, obs_end |-> end, label |-> lab,
          event_count |-> Cardinality(window)]
    ELSE [user_id |-> u, obs_start |-> start, obs_end |-> end, label |-> lab]

WInit ==
    /\ w_variant \in {"split", "component"}
    /\ df \in SeqsUpTo(Events, MaxEvents)
    /\ df_ts_dtype \in {"object", "datetime64[ns]"}
    /\ observation_days \in Spans
    /\ prediction_days \in Spans
    /\ w_pc = "start"
    /\ sorted_df = <<>>
    /\ w_i = 0
    /\ obs_start = 0 /\ obs_end = 0 /\ pred_end = 0
    /\ obs_window = {} /\ pred_window = {}
    /\ label = 0
    /\ samples = <<>>

\* pd.to_datetime on the timestamp column, then sort_values; samples = []
\* ("split" converts the column of the frame it was handed, "component" the
\* frame it read from parquet itself)
SortLog ==
    /\ w_pc = "start"
    /\ df_ts_dtype' = IF w_variant = "split" THEN "datetime64[ns]" ELSE df_ts_dtype
    /\ sorted_df' = SortValues(df)
    /\ samples' = <<>>
    /\ w_pc' = "loop"
    /\ UNCHANGED <<w_variant, df, observation_days, prediction_days, w_i,
                   obs_start, obs_end, pred_end, obs_window, pred_window, label>>

\* one pass of the body of `for i in range(len(user_df))`; groupby hands the
\* groups in key order, so the rows are met in the order of sorted_df
WindowStep ==
    /\ w_pc = "loop"
    /\ w_i < Len(sorted_df)
    /\ LET row     == sorted_df[w_i + 1]
           user_df == UserDf(sorted_df, row.user_id)
           start   == row.ts
           end     == start + observation_days
           pend    == end + prediction_days
           ow      == ObsWindow(user_df, start, end)
           pw      == PredWindow(user_df, end, pend)
           lab     == Label(user_df, pw)
       IN  /\ obs_start' = start
           /\ obs_end' = end
           /\ pred_end' = pend
           /\ obs_window' = ow
           /\ pred_window' = pw
           /\ label' = lab
           /\ samples' = Append(samples, Sample(w_variant, row.user_id, start, end, lab, ow))
    /\ w_i' = w_i + 1
    /\ UNCHANGED <<w_variant, df, df_ts_dtype, observation_days, prediction_days,
                   w_pc, sorted_df>>

\* return pd.DataFrame(samples) / labeled_df.to_parquet(...)
WindowReturn ==
    /\ w_pc = "loop"
    /\ w_i = Len(sorted_df)
    /\ w_pc' = "done"
    /\ UNCHANGED <<w_variant, df, df_ts_dtype, observation_days, prediction_days,
                   sorted_df, w_i, obs_start, obs_end, pred_end, obs_window,
                   pred_window, label, samples>>

\* =========================================================================
\* Concept Drift Estimator: detect_concept_drift_recall_drop
\* =========================================================================
VARIABLES
    predict_table,  \* per predict_date, the recall_at_k of its rows (NULL: None)
    current_date,   \* the anchor date
    c_pc,           \* "start", "queried", "done"
    current,        \* result of current_query: the recall_at_k column
    baseline,       \* result of baseline_query: the baseline_recall column
    current_val, baseline_val, degradation,
    output_concept_drift  \* the row written to parquet

cvars == <<predict_table, current_date, c_pc, current, baseline, current_val,
           baseline_val, degradation, output_concept_drift>>

\* Python values: None, a float NaN (a SQL NULL read into a float column), or a
\* number kept as the reduced fraction n/d, d > 0
PyNone == [t |-> "None"]
NaN == [t |-> "nan"]

RECURSIVE Gcd(_, _)
Gcd(a, b) == IF b = 0 THEN a ELSE Gcd(b, a % b)
Abs(x) == IF x < 0 THEN -x ELSE x
Num(n, d) == LET g == Gcd(Abs(n), d) IN [t |-> "num", n |-> n \div g, d |-> d \div g]
IsNum(x) == x.t = "num"

\* float subtraction: NaN when either side is NaN
MinusReversed(a, b) ==
    IF IsNum(a) /\ IsNum(b) THEN Num(b.n * a.d - a.n * b.d, a.d * b.d) ELSE NaN
Minus(a, b) ==
    IF IsNum(a) /\ IsNum(b) THEN Num(a.n * b.d - b.n * a.d, a.d * b.d) ELSE NaN

\* a SQL cell read into a float64 column
ToFloat(cell) == IF IsNone(cell) THEN NaN ELSE Num(Val(cell), 1)

Dates == 1 .. MaxDate
\* recall_at_k values, in tenths
RecallValues == {2, 5, 6, 7}
\* the rows of one date: no row, a row with NULL, a row with a value
Cells == {<<>>, <<None>>} \cup {<<Some(v)>> : v \in RecallValues}

RECURSIVE SumSeq(_)
SumSeq(s) == IF s = <<>> THEN 0 ELSE s[1] + SumSeq(Tail(s))

RECURSIVE Flatten(_, _, _)
\* the non-NULL recall_at_k of the rows dated d with lo <= d <= hi
Flatten(table, lo, hi) ==
    IF lo > hi THEN <<>>
    ELSE SelectSeq(table[lo], LAMBDA c : ~IsNone(c)) \o Flatten(table, lo + 1, hi)

\* SELECT recall_at_k FROM t WHERE predict_date = current_date
CurrentQuery(table, d) == IF d \in DOMAIN table THEN table[d] ELSE <<>>

\* the rows of WHERE predict_date < current_date AND recall_at_k IS NOT NULL
BaselineRowsMutant(table, d) == Flatten(table, 1, d)
BaselineRows(table, d) == Flatten(table, 1, d - 1)

\* AVG(recall_at_k): NULL over no row
Avg(rows) ==
    IF rows = <<>> THEN NaN
    ELSE LET vals == [j \in 1 .. Len(rows) |-> Val(rows[j])]
         IN  Num(SumSeq(vals), Len(rows))

Limit(rows, n) == SubSeq(rows, 1, IF Len(rows) < n THEN Len(rows) ELSE n)

\* SELECT AVG(recall_at_k) AS baseline_recall ... LIMIT 30: the aggregate has
\* no GROUP BY, so it yields one row, and LIMIT acts on that one row
BaselineQuery(table, d) == Limit(<<Avg(BaselineRows(table, d))>>, BaselineLimit)

CInit ==
    /\ predict_table \in [Dates -> Cells]
    /\ current_date \in Dates
    /\ c_pc = "start"
    /\ current = <<>>
    /\ baseline = <<>>
    /\ current_val = PyNone
    /\ baseline_val = PyNone
    /\ degradation = PyNone
    /\ output_concept_drift = <<>>

\* a long metric series: MaxOlder dates with any rows, then BaselineLimit
\* dates that all carry one value, then the anchor date
LongDates == 1 .. MaxOlder + BaselineLimit + 1
CLongInit ==
    /\ \E old \in [1 .. MaxOlder -> Cells] : \E recent \in RecallValues : \E anchor \in Cells :
          predict_table = [d \in LongDates |->
                              IF d <= MaxOlder THEN old[d]
                              ELSE IF d <= MaxOlder + BaselineLimit THEN <<Some(recent)>>
                              ELSE anchor]
    /\ current_date = MaxOlder + BaselineLimit + 1
    /\ c_pc = "start"
    /\ current = <<>>
    /\ baseline = <<>>
    /\ current_val = PyNone
    /\ baseline_val = PyNone
    /\ degradation = PyNone
    /\ output_concept_drift = <<>>

\* client.query(current_query).to_dataframe(); client.query(baseline_query)...
ConceptQueries ==
    /\ c_pc = "start"
    /\ current' = [j \in 1 .. Len(CurrentQuery(predict_table, current_date)) |->
                      ToFloat(CurrentQuery(predict_table, current_date)[j])]
    /\ baseline' = BaselineQuery(predict_table, current_date)
    /\ c_pc' = "queried"
    /\ UNCHANGED <<predict_table, current_date, current_val, baseline_val,
                   degradation, output_concept_drift>>

\* current["recall_at_k"].values[0] if not current.empty else None
CurrentValOrZero(cur) == IF cur # <<>> THEN cur[1] ELSE Num(0, 1)
CurrentVal(cur) == IF cur # <<>> THEN cur[1] ELSE PyNone

\* baseline_val - current_val if current_val is not None else None
Degradation(bv, cv) == IF cv # PyNone THEN Minus(bv, cv) ELSE PyNone

\* current_val, baseline_val, degradation and the row written out
ConceptWrite ==
    /\ c_pc = "queried"
    /\ LET cv == CurrentVal(current)
           bv == IF baseline # <<>> THEN baseline[1] ELSE PyNone
           dg == Degradation(bv, cv)
       IN  /\ current_val' = cv
           /\ baseline_val' = bv
           /\ degradation' = dg
           /\ output_concept_drift' =
                 <<[baseline_recall |-> bv, current_recall |-> cv,
                    recall_degradation |-> dg]>>
    /\ c_pc' = "done"
    /\ UNCHANGED <<predict_table, current_date, current, baseline>>

\* =========================================================================
\* Retrain decision: check_drift_decision (components/retrain.py) and
\* check_retrain_decision (pipelines/components/check_retrain_decision.py)
\* =========================================================================
VARIABLES
    data_drift_log,      \* rows of the data-drift log: row -> how many times
    concept_drift_log,   \* rows of the concept-drift log: row -> how many times
    data_table_ok,       \* the data-drift query can run (table and column exist)
    concept_table_ok,    \* the concept-drift query can run
    retrain_decision,    \* check_retrain_decision: "pending", "RETRAIN", "SKIP"
    drift_decision       \* check_drift_decision: "pending", "RETRAIN", "SKIP", "raised"

rvars == <<data_drift_log, concept_drift_log, data_table_ok, concept_table_ok,
           retrain_decision, drift_decision>>

\* drift_recommendation as the decision step reads it
Severities == {"Strong", "Weak", "None"}
\* the values detect_drift returns
DriftFlags == {"STRONG", "WEAK", "NONE"}
\* every string a drift_recommendation cell holds in the model
Recommendations == Severities \cup DriftFlags
\* drift_check_date of the data log, anchor_date of the concept log
LogDates == 1 .. MaxLogDate
LogRows == [date : LogDates, drift_recommendation : Recommendations]

\* a table is a bag of rows
BagOf(s) == [r \in LogRows |-> Cardinality({j \in 1 .. Len(s) : s[j] = r})]
SeverityRows == [date : LogDates, drift_recommendation : Severities]
Logs == {BagOf(s) : s \in SeqsUpTo(SeverityRows, MaxLogRows)}
EmptyLog == BagOf(<<>>)

RowsOf(log) == {r \in LogRows : log[r] > 0}

\* SELECT MAX(date) FROM log: NULL over no row
MinLogDateOf(log) ==
    IF RowsOf(log) = {} THEN None
    ELSE Some(CHOOSE d \in LogDates :
                 /\ \E r \in RowsOf(log) : r.date = d
                 /\ \A r \in RowsOf(log) : r.date >= d)
MaxLogDateOf(log) ==
    IF RowsOf(log) = {} THEN None
    ELSE Some(CHOOSE d \in LogDates :
                 /\ \E r \in RowsOf(log) : r.date = d
                 /\ \A r \in RowsOf(log) : r.date <= d)

\* SELECT drift_recommendation FROM log WHERE date = (SELECT MAX(date) FROM log):
\* recommendation -> number of rows (date = NULL is true of no row)
LatestRowsMutant(log) ==
    [v \in Recommendations |->
        IF \E d \in LogDates : log[[date |-> d, drift_recommendation |-> v]] > 0
        THEN 1 ELSE 0]
LatestRows(log) ==
    [v \in Recommendations |->
        IF IsNone(MaxLogDateOf(log)) THEN 0
        ELSE log[[date |-> Val(MaxLogDateOf(log)), drift_recommendation |-> v]]]

\* SELECT DISTINCT ...
DistinctKeepNone(result) == [v \in Recommendations |-> IF result[v] = 1 THEN 1 ELSE 0]
Distinct(result) == [v \in Recommendations |-> IF result[v] > 0 THEN 1 ELSE 0]

\* "Strong" in result values
HasStrong(result) == result["Strong"] > 0

\* check_retrain_decision: any failure inside try is answered by SKIP
CheckRetrainDecisionUnguarded(dlog, clog, dok, cok) ==
    IF ~dok \/ ~cok THEN "raised"
    ELSE IF HasStrong(LatestRows(dlog)) \/ HasStrong(LatestRows(clog))
         THEN "RETRAIN" ELSE "SKIP"
CheckRetrainDecision(dlog, clog, dok, cok) ==
    IF ~dok \/ ~cok THEN "SKIP"
    ELSE IF HasStrong(LatestRows(dlog)) \/ HasStrong(LatestRows(clog))
         THEN "RETRAIN" ELSE "SKIP"

\* check_drift_decision: a failing query raises out of the component
CheckDriftDecision(dlog, clog, dok, cok) ==
    IF ~dok \/ ~cok THEN "raised"
    ELSE IF HasStrong(Distinct(LatestRows(dlog))) \/ HasStrong(Distinct(LatestRows(clog)))
         THEN "RETRAIN" ELSE "SKIP"

\* a table that cannot be queried holds no recommendation
RInit ==
    /\ data_table_ok \in BOOLEAN
    /\ concept_table_ok \in BOOLEAN
    /\ data_drift_log \in IF data_table_ok THEN Logs ELSE {EmptyLog}
    /\ concept_drift_log \in IF concept_table_ok THEN Logs ELSE {EmptyLog}
    /\ retrain_decision = "pending"
    /\ drift_decision = "pending"

RunCheckRetrainDecision ==
    /\ retrain_decision = "pending"
    /\ retrain_decision' = CheckRetrainDecision(data_drift_log, concept_drift_log,
                                                data_table_ok, concept_table_ok)
    /\ UNCHANGED <<data_drift_log, concept_drift_log, data_table_ok,
                   concept_table_ok, drift_decision>>

RunCheckDriftDecision ==
    /\ drift_decision = "pending"
    /\ drift_decision' = CheckDriftDecision(data_drift_log, concept_drift_log,
                                            data_table_ok, concept_table_ok)
    /\ UNCHANGED <<data_drift_log, concept_drift_log, data_table_ok,
                   concept_table_ok, retrain_decision>>

RIdle ==
    /\ data_drift_log = EmptyLog /\ concept_drift_log = EmptyLog
    /\ data_table_ok = TRUE /\ concept_table_ok = TRUE
    /\ retrain_decision = "idle" /\ drift_decision = "idle"

\* =========================================================================
\* Drift check: detect_drift (pipelines/components/drift_detection.py)
\* =========================================================================
VARIABLES
    psi_scores,   \* calculate_psi of each column of feature_cols, in hundredths
    df_score,     \* top_50_users csv: user_pseudo_id -> score (None: no row)
    df_label,     \* labels table: user_pseudo_id -> label (None: no row)
    d_pc,         \* "start", "data", "concept", "done"
    avg_psi,
    df_joined,    \* the inner join: the set of users with a score and a label
    correlation,
    drift_flag    \* the value returned

dvars == <<psi_scores, df_score, df_label, d_pc, avg_psi, df_joined,
           correlation, drift_flag>>

\* the stability indexes handed to the rules, in hundredths; calculate_psi is
\* modelled on its own (SpecPsi) up to the sign of its terms, so here its
\* value for a feature is an input
PsiValues == {0, 10, 20, 30}
ScoredUsers == {1, 2, 3}
ScoreValues == {0, 1, 3}
LabelValues == {0, 1}

\* np.mean(psi_scores): NaN over no feature
MeanSubtracting(s) == IF s = <<>> THEN NaN ELSE Num(2 * s[1] - SumSeq(s), Len(s))
Mean(s) == IF s = <<>> THEN NaN ELSE Num(SumSeq(s), Len(s))

\* df_score.merge(df_label, on="user_pseudo_id", how="inner")
InnerJoin(score, lab) == {u \in ScoredUsers : ~IsNone(score[u]) /\ ~IsNone(lab[u])}

RECURSIVE SumOver(_, _)
SumOver(S, f) ==
    IF S = {} THEN 0
    ELSE LET u == CHOOSE x \in S : TRUE IN f[u] + SumOver(S \ {u}, f)

\* Series.corr (Pearson): cov / sqrt(var_x * var_y), kept as its exact
\* ingredients (each times n^2); NaN with fewer than 2 pairs or a constant side
Pearson(score, lab, joined) ==
    LET n   == Cardinality(joined)
        x   == [u \in joined |-> Val(score[u])]
        y   == [u \in joined |-> Val(lab[u])]
        sx  == SumOver(joined, x)
        sy  == SumOver(joined, y)
        sxy == SumOver(joined, [u \in joined |-> x[u] * y[u]])
        sxx == SumOver(joined, [u \in joined |-> x[u] * x[u]])
        syy == SumOver(joined, [u \in joined |-> y[u] * y[u]])
        cov == n * sxy - sx * sy
        vx  == n * sxx - sx * sx
        vy  == n * syy - sy * sy
    IN  IF n < 2 \/ vx = 0 \/ vy = 0 THEN NaN
        ELSE [t |-> "corr", cov |-> cov, vx |-> vx, vy |-> vy]

\* avg_psi > pct / 100 (a comparison with NaN is False)
PsiAboveMutant(avg, pct) == IsNum(avg) /\ avg.n >= pct * avg.d
PsiAbove(avg, pct) == IsNum(avg) /\ avg.n > pct * avg.d

\* correlation is not None and correlation < tenths / 10 (NaN is not None,
\* and a comparison with NaN is False)
CorrBelow(c, tenths) ==
    /\ c # PyNone
    /\ c.t = "corr"
    /\ \/ c.cov <= 0
       \/ 100 * c.cov * c.cov < tenths * tenths * c.vx * c.vy

\* 4. Heuristic decision rules
DriftFlag(avg, c) ==
    IF PsiAbove(avg, PsiStrongPct) \/ CorrBelow(c, CorrStrongTenths) THEN "STRONG"
    ELSE IF PsiAbove(avg, PsiWeakPct) \/ CorrBelow(c, CorrWeakTenths) THEN "WEAK"
    ELSE "NONE"

DInit ==
    /\ psi_scores \in SeqsUpTo(PsiValues, MaxFeatures)
    /\ df_score \in [ScoredUsers -> {None} \cup {Some(v) : v \in ScoreValues}]
    /\ df_label \in [ScoredUsers -> {None} \cup {Some(v) : v \in LabelValues}]
    /\ d_pc = "start"
    /\ avg_psi = NaN
    /\ df_joined = {}
    /\ correlation = NaN
    /\ drift_flag = "unset"

\* 1.-2. load the features, calculate_psi per column, avg_psi
DriftDataStep ==
    /\ d_pc = "start"
    /\ avg_psi' = Mean(psi_scores)
    /\ d_pc' = "data"
    /\ UNCHANGED <<psi_scores, df_score, df_label, df_joined, correlation, drift_flag>>

\* 3. the scores, the labels, their join and its correlation
DriftConceptStep ==
    /\ d_pc = "data"
    /\ df_joined' = InnerJoin(df_score, df_label)
    /\ correlation' = Pearson(df_score, df_label, InnerJoin(df_score, df_label))
    /\ d_pc' = "concept"
    /\ UNCHANGED <<psi_scores, df_score, df_label, avg_psi, drift_flag>>

\* 4. the rules; print; return drift_flag
DriftDecide ==
    /\ d_pc = "concept"
    /\ drift_flag' = DriftFlag(avg_psi, correlation)
    /\ d_pc' = "done"
    /\ UNCHANGED <<psi_scores, df_score, df_label, avg_psi, df_joined, correlation>>

DIdle ==
    /\ psi_scores = <<>>
    /\ df_score = [u \in ScoredUsers |-> None]
    /\ df_label = [u \in ScoredUsers |-> None]
    /\ d_pc = "idle" /\ avg_psi = NaN /\ df_joined = {} /\ correlation = NaN
    /\ drift_flag = "unset"

\* =========================================================================
\* Population Stability Index: calculate_psi
\*   "percentile": components/drift.py (percentile breakpoints of expected)
\*   "scaled":     pipelines/components/drift_detection.py (min-max scaling
\*                 of each sample, equal-width breakpoints)
\* =========================================================================
VARIABLES
    p_variant,
    expected,         \* the baseline sample, as a multiset written in ascending order
    actual,           \* the current sample, likewise
    buckets,
    p_pc,             \* "start", "binned", "done"
    breakpoints,      \* the bin edges, times buckets
    expected_counts,  \* np.histogram(expected, bins=breakpoints)[0]
    actual_counts,    \* np.histogram(actual, bins=breakpoints)[0]
    psi_terms,        \* per bucket: is the term finite, and its sign
    psi               \* the value returned: is it finite, and its sign

pvars == <<p_variant, expected, actual, buckets, p_pc, breakpoints,
           expected_counts, actual_counts, psi_terms, psi>>

\* The three smoothing constants of the code (1e-6 on counts, 1e-5 in
\* scale_range, 1e-4 inside the logarithm) are each far smaller than the
\* reciprocal of any product of counts and values the model reaches. A
\* quantity c0 + c1*e + c2*e^2 in such a constant e therefore has the sign of
\* its first non-zero coefficient, and is kept as its three coefficients.
Eps(a, b) == [c0 |-> a, c1 |-> b, c2 |-> 0]
EpsMul(x, y) == [c0 |-> x.c0 * y.c0,
                 c1 |-> x.c0 * y.c1 + x.c1 * y.c0,
                 c2 |-> x.c1 * y.c1]
EpsSub(x, y) == [c0 |-> x.c0 - y.c0, c1 |-> x.c1 - y.c1, c2 |-> x.c2 - y.c2]
Sign(n) == IF n > 0 THEN 1 ELSE IF n < 0 THEN -1 ELSE 0
EpsSign(x) == IF x.c0 # 0 THEN Sign(x.c0)
              ELSE IF x.c1 # 0 THEN Sign(x.c1) ELSE Sign(x.c2)
EpsLeq(x, y) == EpsSign(EpsSub(x, y)) <= 0
EpsLt(x, y) == EpsSign(EpsSub(x, y)) < 0

\* a quotient num / den of two such quantities
Quot(num, den) == [num |-> num, den |-> den]
\* sign of p - q, for quotients with positive denominators
QuotCmp(p, q) == EpsSign(EpsSub(EpsMul(p.num, q.den), EpsMul(q.num, p.den)))
\* p is a number, and p > 0
QuotPositive(p) == EpsSign(p.den) > 0 /\ EpsSign(p.num) > 0

SampleValues == 0 .. MaxVal
Samples == {s \in SeqsUpTo(SampleValues, MaxN) :
               Len(s) >= 1 /\ \A j \in 1 .. Len(s) - 1 : s[j] <= s[j + 1]}

\* np.percentile(expected, np.linspace(0, 100, buckets + 1)), each breakpoint
\* times k: the j-th one lies at index (n-1)*j/k of the sorted sample, linearly
\* interpolated between its two neighbours
Percentile(x, j, k) ==
    LET lo == ((Len(x) - 1) * j) \div k
        r  == ((Len(x) - 1) * j) % k
    IN  IF r = 0 THEN k * x[lo + 1]
        ELSE k * x[lo + 1] + r * (x[lo + 2] - x[lo + 1])
PercentileBreakpoints(x, k) == [j \in 1 .. k + 1 |-> Eps(Percentile(x, j - 1, k), 0)]

\* the values of a sample on the scale of PercentileBreakpoints
TimesK(x, k) == [j \in 1 .. Len(x) |-> Eps(k * x[j], 0)]

\* scale_range and np.linspace(0, 1, buckets + 1): (x - min) / (max - min + e)
\* is compared with i / k as k * (x - min) with i * (max - min + e)
ScaledValues(x, k) == [j \in 1 .. Len(x) |-> Eps(k * (x[j] - x[1]), 0)]
ScaledBreakpoints(x, k) == [j \in 1 .. k + 1 |-> Eps((j - 1) * (x[Len(x)] - x[1]), j - 1)]

\* np.histogram(values, bins=edges)[0]: bin i is [edges[i], edges[i+1]), the
\* last one [edges[k], edges[k+1]]; a value outside all bins is not counted
Histogram(values, edges) ==
    [i \in 1 .. Len(edges) - 1 |->
        Cardinality({j \in 1 .. Len(values) :
            /\ EpsLeq(edges[i], values[j])
            /\ IF i = Len(edges) - 1 THEN EpsLeq(values[j], edges[i + 1])
               ELSE EpsLt(values[j], edges[i + 1])})]

\* counts + 1e-6
SmoothedNotAtAll(counts) == [i \in 1 .. Len(counts) |-> Eps(counts[i], 0)]
Smoothed(counts) == [i \in 1 .. Len(counts) |-> Eps(counts[i], 1)]
ActualSmoothed(counts) == Smoothed(counts)

RECURSIVE EpsSum(_)
EpsSum(s) ==
    IF s = <<>> THEN Eps(0, 0)
    ELSE LET r == EpsSum(Tail(s))
         IN  [c0 |-> s[1].c0 + r.c0, c1 |-> s[1].c1 + r.c1, c2 |-> 0]

\* counts / counts.sum()
Percents(smoothed) == [i \in 1 .. Len(smoothed) |-> Quot(smoothed[i], EpsSum(smoothed))]
\* np.histogram(...)[0] / len(sample)
Bins(counts, n) == [i \in 1 .. Len(counts) |-> Quot(Eps(counts[i], 0), Eps(n, 0))]
\* bins + 1e-4
PlusEta(q) == Quot([c0 |-> q.num.c0, c1 |-> q.den.c0, c2 |-> 0], q.den)

\* sign of np.log(a / b): the quotient must be a positive number
LogSignSwapped(a, b) == QuotCmp(b, a)
LogSign(a, b) == QuotCmp(a, b)
LogDefined(a, b) == QuotPositive(a) /\ QuotPositive(b)

\* (p - q) * np.log(a / b) for one bucket
Term(p, q, a, b) ==
    IF LogDefined(a, b) THEN [finite |-> TRUE, sign |-> QuotCmp(p, q) * LogSign(a, b)]
    ELSE [finite |-> FALSE, sign |-> 0]

\* np.sum of the terms: sign 2 stands for terms of both signs
SumTerms(terms) ==
    LET signs == {terms[i].sign : i \in 1 .. Len(terms)}
    IN  [finite |-> \A i \in 1 .. Len(terms) : terms[i].finite,
         sign |-> IF signs \subseteq {0} THEN 0
                  ELSE IF signs \subseteq {0, 1} THEN 1
                  ELSE IF signs \subseteq {0, -1} THEN -1 ELSE 2]

PsiTerms(variant, ecounts, acounts, ne, na) ==
    IF variant = "percentile"
    THEN LET ep == Percents(Smoothed(ecounts))
             ap == Percents(ActualSmoothed(acounts))
         IN  [i \in 1 .. Len(ecounts) |-> Term(ep[i], ap[i], ep[i], ap[i])]
    ELSE LET eb == Bins(ecounts, ne)
             ab == Bins(acounts, na)
         IN  [i \in 1 .. Len(ecounts) |->
                 Term(eb[i], ab[i], PlusEta(eb[i]), PlusEta(ab[i]))]

PInit ==
    /\ p_variant \in {"percentile", "scaled"}
    /\ expected \in Samples
    /\ actual \in Samples
    /\ buckets \in 1 .. MaxBuckets
    /\ p_pc = "start"
    /\ breakpoints = <<>>
    /\ expected_counts = <<>>
    /\ actual_counts = <<>>
    /\ psi_terms = <<>>
    /\ psi = [finite |-> TRUE, sign |-> 0]

\* the breakpoints and the two histograms
PsiHistograms ==
    /\ p_pc = "start"
    /\ IF p_variant = "percentile"
       THEN /\ breakpoints' = PercentileBreakpoints(expected, buckets)
            /\ expected_counts' = Histogram(TimesK(expected, buckets),
                                            PercentileBreakpoints(expected, buckets))
            /\ actual_counts' = Histogram(TimesK(actual, buckets),
                                          PercentileBreakpoints(expected, buckets))
       ELSE /\ breakpoints' = [j \in 1 .. buckets + 1 |-> Eps(j - 1, 0)]
            /\ expected_counts' = Histogram(ScaledValues(expected, buckets),
                                            ScaledBreakpoints(expected, buckets))
            /\ actual_counts' = Histogram(ScaledValues(actual, buckets),
                                          ScaledBreakpoints(actual, buckets))
    /\ p_pc' = "binned"
    /\ UNCHANGED <<p_variant, expected, actual, buckets, psi_terms, psi>>

\* the proportions, the terms and their sum; return psi
PsiSum ==
    /\ p_pc = "binned"
    /\ psi_terms' = PsiTerms(p_variant, expected_counts, actual_counts,
                             Len(expected), Len(actual))
    /\ psi' = SumTerms(PsiTerms(p_variant, expected_counts, actual_counts,
                                Len(expected), Len(actual)))
    /\ p_pc' = "done"
    /\ UNCHANGED <<p_variant, expected, actual, buckets, breakpoints,
                   expected_counts, actual_counts>>

PIdle ==
    /\ p_variant = "percentile" /\ expected = <<0>> /\ actual = <<0>>
    /\ buckets = 1 /\ p_pc = "idle" /\ breakpoints = <<>>
    /\ expected_counts = <<>> /\ actual_counts = <<>> /\ psi_terms = <<>>
    /\ psi = [finite |-> TRUE, sign |-> 0]

\* =========================================================================
\* Concurrent drift checks: two calls of detect_drift for different
\* prediction dates, run in one working directory
\* (pipelines/components/drift_detection.py)
\* =========================================================================
VARIABLES
    top_users_csv,  \* the local file "top_users.csv": user_pseudo_id -> score
    x_blob,         \* per check: predictions/top_50_users_{prediction_date}.csv
    x_label,        \* per check: the labels table of its prediction date
    x_psi,          \* per check: the stability indexes of its feature table
    x_pc,           \* per check: "start", "downloaded", "read", "done"
    x_score,        \* per check: df_score as read from the local file
    x_flag          \* per check: the value returned

xvars == <<top_users_csv, x_blob, x_label, x_psi, x_pc, x_score, x_flag>>

\* the two checks, one per prediction date
Checks == {1, 2}
NoScores == [u \in ScoredUsers |-> None]
XScoreTables == [ScoredUsers -> {Some(0), Some(1)}]
XLabelTables == [ScoredUsers -> {Some(0), Some(1)}]
XPsiScores == {<<0>>, <<30>>}

XInit ==
    /\ top_users_csv = NoScores
    /\ x_blob \in [Checks -> XScoreTables]
    /\ x_label \in [Checks -> XLabelTables]
    /\ x_psi \in [Checks -> XPsiScores]
    /\ x_pc = [c \in Checks |-> "start"]
    /\ x_score = [c \in Checks |-> NoScores]
    /\ x_flag = [c \in Checks |-> "unset"]

\* 1.-2. and prediction_blob.download_to_filename("top_users.csv"): the
\* download replaces the file of that name in the working directory
XDownload(c) ==
    /\ x_pc[c] = "start"
    /\ top_users_csv' = x_blob[c]
    /\ x_pc' = [x_pc EXCEPT ![c] = "downloaded"]
    /\ UNCHANGED <<x_blob, x_label, x_psi, x_score, x_flag>>

\* df_score = pd.read_csv("top_users.csv")
XReadCsv(c) ==
    /\ x_pc[c] = "downloaded"
    /\ x_score' = [x_score EXCEPT ![c] = top_users_csv]
    /\ x_pc' = [x_pc EXCEPT ![c] = "read"]
    /\ UNCHANGED <<top_users_csv, x_blob, x_label, x_psi, x_flag>>

\* the labels query, the join, the correlation and the rules; return
XDecide(c) ==
    /\ x_pc[c] = "read"
    /\ x_flag' = [x_flag EXCEPT ![c] =
           DriftFlag(Mean(x_psi[c]),
                     Pearson(x_score[c], x_label[c], InnerJoin(x_score[c], x_label[c])))]
    /\ x_pc' = [x_pc EXCEPT ![c] = "done"]
    /\ UNCHANGED <<top_users_csv, x_blob, x_label, x_psi, x_score>>

XIdle ==
    /\ top_users_csv = NoScores
    /\ x_blob = [c \in Checks |-> NoScores]
    /\ x_label = [c \in Checks |-> NoScores]
    /\ x_psi = [c \in Checks |-> <<>>]
    /\ x_pc = [c \in Checks |-> "idle"]
    /\ x_score = [c \in Checks |-> NoScores]
    /\ x_flag = [c \in Checks |-> "unset"]

\* =========================================================================
\* Retrain pipeline: daily_drift_check_and_retrain
\* (pipelines/retrain_pipeline.py); its first task is check_drift_decision
\* of the decision step above
\* =========================================================================
VARIABLES
    k_fe,       \* the task run_feature_engineering_sql
    k_trigger   \* the task trigger_training_pipeline

kvars == <<k_fe, k_trigger>>

\* a task is "pending" until the run reaches it, "skipped" when its dsl.If
\* group is not entered
TaskStates == {"pending", "running", "succeeded", "failed", "skipped"}

\* with dsl.If(decision.output == "RETRAIN"): the group is entered when the
\* decision task has succeeded with that output
IfRetrain(decision) == decision = "RETRAIN"

\* .after(fe): the upstream task has completed successfully
AfterFeDropped(fe) == TRUE
AfterFe(fe) == fe = "succeeded"

KInit ==
    /\ k_fe = "pending"
    /\ k_trigger = "pending"

\* the decision task succeeded with another output: the group is skipped
KSkipGroup ==
    /\ drift_decision = "SKIP"
    /\ k_fe = "pending"
    /\ k_fe' = "skipped"
    /\ k_trigger' = "skipped"

\* fe = run_feature_engineering_sql(...)
KStartFe ==
    /\ IfRetrain(drift_decision)
    /\ k_fe = "pending"
    /\ k_fe' = "running"
    /\ UNCHANGED k_trigger

\* the SQL files run one after another; a failing query fails the task
KFinishFe ==
    /\ k_fe = "running"
    /\ k_fe' \in {"succeeded", "failed"}
    /\ UNCHANGED k_trigger

\* trigger_training_pipeline(...).after(fe)
KStartTrigger ==
    /\ IfRetrain(drift_decision)
    /\ AfterFe(k_fe)
    /\ k_trigger = "pending"
    /\ k_trigger' = "running"
    /\ UNCHANGED k_fe

\* job.run(..., sync=False) submits the training pipeline or raises
KFinishTrigger ==
    /\ k_trigger = "running"
    /\ k_trigger' \in {"succeeded", "failed"}
    /\ UNCHANGED k_fe

KIdle == k_fe = "idle" /\ k_trigger = "idle"

\* =========================================================================
\* Training pipeline: training_pipeline (pipelines/training_pipeline.py),
\* from the sliding-window loop to the export of the best model
\* =========================================================================
VARIABLES
    t_windows,      \* the length of index_list (count_total_windows)
    t_skipped_dep,  \* how the orchestrator treats a dependency on a skipped task
    t_eval,         \* (window, model type) -> the task evaluate_model_to_file
    t_wait,         \* the task wait_for_all_models
    t_merged,       \* the task merge_and_write_to_bq
    t_summarized,   \* the task summarize_eval_from_bq
    t_export        \* the task export_best_model

tvars == <<t_windows, t_skipped_dep, t_eval, t_wait, t_merged, t_summarized, t_export>>

ModelTypes == {"lgb", "xgb", "catboost"}
Iterations(n) == (1 .. n) \X ModelTypes

\* A task named in an argument or in .after() is an upstream task. When the
\* upstream task sits in a dsl.If group that was not entered, an
\* orchestrator either skips the dependent task too ("propagate") or counts
\* the dependency as met ("satisfied"); both occur in practice.
SkippedDepPolicies == {"propagate", "satisfied"}

\* After the three `with dsl.If(...)` blocks the name `train` is the task
\* created last, train_catboost_model, which runs only in the catboost
\* iteration: evaluate_model_to_file(model_path=train.outputs[...]).after(train)
TrainIsSkipped(m) == m # "catboost"

\* done = model_eval_done(...).after(eval_model) is a marker without work of
\* its own: it completes with the evaluation it follows.
\* wait.after(done), the tasks in two nested dsl.ParallelFor: every iteration
AnyDoneSignal(evals, n) ==
    n = 0 \/ \E it \in Iterations(n) : evals[it] = "succeeded"
AllDoneSignals(evals, n) ==
    \A it \in Iterations(n) : evals[it] = "succeeded"

TInit ==
    /\ t_windows \in 0 .. MaxWindows
    /\ t_skipped_dep \in SkippedDepPolicies
    /\ t_eval = [it \in Iterations(t_windows) |-> "pending"]
    /\ t_wait = "pending"
    /\ t_merged = "pending"
    /\ t_summarized = "pending"
    /\ t_export = "pending"

\* the evaluation starts once `train` and the window's preprocessing are done
TStartEval(w, m) ==
    /\ <<w, m>> \in Iterations(t_windows)
    /\ t_eval[<<w, m>>] = "pending"
    /\ TrainIsSkipped(m) => t_skipped_dep = "satisfied"
    /\ t_eval' = [t_eval EXCEPT ![<<w, m>>] = "running"]
    /\ UNCHANGED <<t_windows, t_skipped_dep, t_wait, t_merged, t_summarized, t_export>>

\* `train` was skipped and the skip carries over to its dependents
TSkipEval(w, m) ==
    /\ <<w, m>> \in Iterations(t_windows)
    /\ t_eval[<<w, m>>] = "pending"
    /\ TrainIsSkipped(m) /\ t_skipped_dep = "propagate"
    /\ t_eval' = [t_eval EXCEPT ![<<w, m>>] = "skipped"]
    /\ UNCHANGED <<t_windows, t_skipped_dep, t_wait, t_merged, t_summarized, t_export>>

TFinishEval(w, m) ==
    /\ <<w, m>> \in Iterations(t_windows)
    /\ t_eval[<<w, m>>] = "running"
    /\ \E r \in {"succeeded", "failed"} :
          t_eval' = [t_eval EXCEPT ![<<w, m>>] = r]
    /\ UNCHANGED <<t_windows, t_skipped_dep, t_wait, t_merged, t_summarized, t_export>>

\* wait = wait_for_all_models(); for done in done_signals: wait.after(done)
TWait ==
    /\ t_wait = "pending"
    /\ AllDoneSignals(t_eval, t_windows)
    /\ t_wait' \in {"succeeded", "failed"}
    /\ UNCHANGED <<t_windows, t_skipped_dep, t_eval, t_merged, t_summarized, t_export>>

\* merged = merge_and_write_to_bq(...).after(wait)
TStartMerge ==
    /\ t_merged = "pending"
    /\ t_wait = "succeeded"
    /\ t_merged' = "running"
    /\ UNCHANGED <<t_windows, t_skipped_dep, t_eval, t_wait, t_summarized, t_export>>

TFinishMerge ==
    /\ t_merged = "running"
    /\ t_merged' \in {"succeeded", "failed"}
    /\ UNCHANGED <<t_windows, t_skipped_dep, t_eval, t_wait, t_summarized, t_export>>

\* summarized = summarize_eval_from_bq(...).after(merged)
TStartSummarize ==
    /\ t_summarized = "pending"
    /\ t_merged = "succeeded"
    /\ t_summarized' = "running"
    /\ UNCHANGED <<t_windows, t_skipped_dep, t_eval, t_wait, t_merged, t_export>>

TFinishSummarize ==
    /\ t_summarized = "running"
    /\ t_summarized' \in {"succeeded", "failed"}
    /\ UNCHANGED <<t_windows, t_skipped_dep, t_eval, t_wait, t_merged, t_export>>

\* export_best_model(...).after(summarized)
TStartExport ==
    /\ t_export = "pending"
    /\ t_summarized = "succeeded"
    /\ t_export' = "running"
    /\ UNCHANGED <<t_windows, t_skipped_dep, t_eval, t_wait, t_merged, t_summarized>>

TFinishExport ==
    /\ t_export = "running"
    /\ t_export' \in {"succeeded", "failed"}
    /\ UNCHANGED <<t_windows, t_skipped_dep, t_eval, t_wait, t_merged, t_summarized>>

TIdle ==
    /\ t_windows = 0 /\ t_skipped_dep = "idle"
    /\ t_eval = [it \in Iterations(0) |-> "pending"]
    /\ t_wait = "idle" /\ t_merged = "idle"
    /\ t_summarized = "idle" /\ t_export = "idle"

\* =========================================================================
\* Sliding-window splits: split_data_by_time_series
\* (pipelines/components/train.py)
\* =========================================================================
VARIABLES
    s_df,                 \* the dataset: row index -> value of date_col
    s_gap,
    s_prediction_window,
    s_pc,                 \* "start", "loop", "done"
    unique_dates,
    s_i,                  \* iterations of the loop done so far
    splits                \* list of (train_idx, test_idx)

svars == <<s_df, s_gap, s_prediction_window, s_pc, unique_dates, s_i, splits>>

\* sorted(S)
SortedDates(S) ==
    CHOOSE s \in [1 .. Cardinality(S) -> S] :
        \A j \in 1 .. Cardinality(S) - 1 : s[j] < s[j + 1]

\* s[a:b] of Python (0-based, end exclusive, cut at the length), as a set
SliceValues(s, a, b) ==
    {s[j] : j \in {j \in 1 .. Len(s) : j >= a + 1 /\ j <= b}}

\* range(n), as its length
RangeLen(n) == IF n > 0 THEN n ELSE 0

SInit ==
    /\ s_df \in SeqsUpTo(Dates, MaxRows)
    /\ s_gap \in 0 .. MaxGap
    /\ s_prediction_window \in 1 .. MaxPredictionWindow
    /\ s_pc = "start"
    /\ unique_dates = <<>>
    /\ s_i = 0
    /\ splits = <<>>

\* read_parquet, to_datetime, unique_dates = sorted(df[date_col].unique())
SplitStart ==
    /\ s_pc = "start"
    /\ unique_dates' = SortedDates({s_df[r] : r \in 1 .. Len(s_df)})
    /\ s_pc' = "loop"
    /\ UNCHANGED <<s_df, s_gap, s_prediction_window, s_i, splits>>

\* one iteration of the loop, i = s_i (0-based)
SplitStep ==
    /\ s_pc = "loop"
    /\ s_i < RangeLen(Len(unique_dates) - s_gap - s_prediction_window + 1)
    /\ LET train_end  == unique_dates[s_i + 1]
           test_range == SliceValues(unique_dates, s_i + s_gap,
                                     s_i + s_gap + s_prediction_window)
           train_idx  == {r \in 1 .. Len(s_df) : s_df[r] <= train_end}
           test_idx   == {r \in 1 .. Len(s_df) : s_df[r] \in test_range}
       IN  splits' = Append(splits, [train |-> train_idx, test |-> test_idx])
    /\ s_i' = s_i + 1
    /\ UNCHANGED <<s_df, s_gap, s_prediction_window, s_pc, unique_dates>>

\* the loop is over: pickle.dump(splits, f)
SplitReturn ==
    /\ s_pc = "loop"
    /\ s_i >= RangeLen(Len(unique_dates) - s_gap - s_prediction_window + 1)
    /\ s_pc' = "done"
    /\ UNCHANGED <<s_df, s_gap, s_prediction_window, unique_dates, s_i, splits>>

SIdle ==
    /\ s_df = <<>> /\ s_gap = 0 /\ s_prediction_window = 1 /\ s_pc = "idle"
    /\ unique_dates = <<>> /\ s_i = 0 /\ splits = <<>>

\* =========================================================================
\* From the drift check to the retrain decision: detect_drift, its flag
\* written as the newest row of the data-drift log, check_retrain_decision
\* =========================================================================
\* the logs before the check: rows of earlier dates in the data log
EarlierLogs == {l \in Logs : \A r \in RowsOf(l) : r.date < MaxLogDate}

\* the first date after every row of the log
NextLogDate(log) ==
    CHOOSE d \in LogDates :
        /\ \A r \in RowsOf(log) : r.date < d
        /\ \A e \in LogDates : (\A r \in RowsOf(log) : r.date < e) => d <= e

EInit ==
    /\ psi_scores \in SeqsUpTo(PsiValues, 1)
    /\ df_score \in XScoreTables
    /\ df_label \in XLabelTables
    /\ d_pc = "start"
    /\ avg_psi = NaN
    /\ df_joined = {}
    /\ correlation = NaN
    /\ drift_flag = "unset"
    /\ data_table_ok = TRUE
    /\ concept_table_ok = TRUE
    /\ data_drift_log \in EarlierLogs
    /\ concept_drift_log \in Logs
    /\ retrain_decision = "idle"
    /\ drift_decision = "idle"

\* the flag is written to BigQuery: one new row, dated after all others,
\* with the returned flag as its drift_recommendation; the decision step
\* runs after it
ERecordFlag ==
    /\ d_pc = "done"
    /\ retrain_decision = "idle"
    /\ data_drift_log' =
           [data_drift_log EXCEPT
               ![[date |-> NextLogDate(data_drift_log),
                  drift_recommendation |-> drift_flag]] = @ + 1]
    /\ retrain_decision' = "pending"
    /\ UNCHANGED <<concept_drift_log, data_table_ok, concept_table_ok, drift_decision>>

\* =========================================================================
\* Specifications
\* =========================================================================
vars == <<wvars, cvars, rvars, dvars, pvars, xvars, kvars, tvars, svars>>

WIdle ==
    /\ w_variant = "split" /\ df = <<>> /\ df_ts_dtype = "object"
    /\ observation_days = 0 /\ prediction_days = 0 /\ w_pc = "idle"
    /\ sorted_df = <<>> /\ w_i = 0
    /\ obs_start = 0 /\ obs_end = 0 /\ pred_end = 0
    /\ obs_window = {} /\ pred_window = {} /\ label = 0 /\ samples = <<>>

CIdle ==
    /\ predict_table = [d \in Dates |-> <<>>] /\ current_date = 1 /\ c_pc = "idle"
    /\ current = <<>> /\ baseline = <<>>
    /\ current_val = PyNone /\ baseline_val = PyNone /\ degradation = PyNone
    /\ output_concept_drift = <<>>

\* one specification per component; the other components are not called
WOthers == UNCHANGED <<cvars, rvars, dvars, pvars, xvars, kvars, tvars, svars>>
InitWindow == WInit /\ CIdle /\ RIdle /\ DIdle /\ PIdle /\ XIdle /\ KIdle /\ TIdle /\ SIdle
WNext ==
    \/ SortLog /\ WOthers
    \/ WindowStep /\ WOthers
    \/ WindowReturn /\ WOthers
SpecWindow == InitWindow /\ [][WNext]_vars

COthers == UNCHANGED <<wvars, rvars, dvars, pvars, xvars, kvars, tvars, svars>>
InitConcept == CInit /\ WIdle /\ RIdle /\ DIdle /\ PIdle /\ XIdle /\ KIdle /\ TIdle /\ SIdle
CNext ==
    \/ ConceptQueries /\ COthers
    \/ ConceptWrite /\ COthers
SpecConcept == InitConcept /\ [][CNext]_vars

InitBaseline == CLongInit /\ WIdle /\ RIdle /\ DIdle /\ PIdle /\ XIdle /\ KIdle /\ TIdle /\ SIdle
SpecBaseline == InitBaseline /\ [][CNext]_vars

ROthers == UNCHANGED <<wvars, cvars, dvars, pvars, xvars, kvars, tvars, svars>>
InitDecision == RInit /\ WIdle /\ CIdle /\ DIdle /\ PIdle /\ XIdle /\ KIdle /\ TIdle /\ SIdle
RNext ==
    \/ RunCheckRetrainDecision /\ ROthers
    \/ RunCheckDriftDecision /\ ROthers
SpecDecision == InitDecision /\ [][RNext]_vars

DOthers == UNCHANGED <<wvars, cvars, rvars, pvars, xvars, kvars, tvars, svars>>
InitDrift == DInit /\ WIdle /\ CIdle /\ RIdle /\ PIdle /\ XIdle /\ KIdle /\ TIdle /\ SIdle
DNext ==
    \/ DriftDataStep /\ DOthers
    \/ DriftConceptStep /\ DOthers
    \/ DriftDecide /\ DOthers
SpecDrift == InitDrift /\ [][DNext]_vars

POthers == UNCHANGED <<wvars, cvars, rvars, dvars, xvars, kvars, tvars, svars>>
InitPsi == PInit /\ WIdle /\ CIdle /\ RIdle /\ DIdle /\ XIdle /\ KIdle /\ TIdle /\ SIdle
PNext ==
    \/ PsiHistograms /\ POthers
    \/ PsiSum /\ POthers
SpecPsi == InitPsi /\ [][PNext]_vars

XOthers == UNCHANGED <<wvars, cvars, rvars, dvars, pvars, kvars, tvars, svars>>
InitConcurrent == XInit /\ WIdle /\ CIdle /\ RIdle /\ DIdle /\ PIdle /\ KIdle /\ TIdle /\ SIdle
XNext ==
    \/ (\E c \in Checks : XDownload(c)) /\ XOthers
    \/ (\E c \in Checks : XReadCsv(c)) /\ XOthers
    \/ (\E c \in Checks : XDecide(c)) /\ XOthers
SpecConcurrent == InitConcurrent /\ [][XNext]_vars

KOthers == UNCHANGED <<wvars, cvars, dvars, pvars, xvars, tvars, svars>>
InitRetrainPipeline == RInit /\ KInit /\ WIdle /\ CIdle /\ DIdle /\ PIdle /\ XIdle /\ TIdle /\ SIdle
KNext ==
    \/ RunCheckDriftDecision /\ ROthers
    \/ KSkipGroup /\ UNCHANGED rvars /\ KOthers
    \/ KStartFe /\ UNCHANGED rvars /\ KOthers
    \/ KFinishFe /\ UNCHANGED rvars /\ KOthers
    \/ KStartTrigger /\ UNCHANGED rvars /\ KOthers
    \/ KFinishTrigger /\ UNCHANGED rvars /\ KOthers
SpecRetrainPipeline == InitRetrainPipeline /\ [][KNext]_vars

TOthers == UNCHANGED <<wvars, cvars, rvars, dvars, pvars, xvars, kvars, svars>>
InitTrainingPipeline == TInit /\ WIdle /\ CIdle /\ RIdle /\ DIdle /\ PIdle /\ XIdle /\ KIdle /\ SIdle
TNext ==
    \/ (\E w \in 1 .. MaxWindows, m \in ModelTypes : TStartEval(w, m)) /\ TOthers
    \/ (\E w \in 1 .. MaxWindows, m \in ModelTypes : TSkipEval(w, m)) /\ TOthers
    \/ (\E w \in 1 .. MaxWindows, m \in ModelTypes : TFinishEval(w, m)) /\ TOthers
    \/ TWait /\ TOthers
    \/ TStartMerge /\ TOthers
    \/ TFinishMerge /\ TOthers
    \/ TStartSummarize /\ TOthers
    \/ TFinishSummarize /\ TOthers
    \/ TStartExport /\ TOthers
    \/ TFinishExport /\ TOthers
SpecTrainingPipeline == InitTrainingPipeline /\ [][TNext]_vars

SOthers == UNCHANGED <<wvars, cvars, rvars, dvars, pvars, xvars, kvars, tvars>>
InitSplit == SInit /\ WIdle /\ CIdle /\ RIdle /\ DIdle /\ PIdle /\ XIdle /\ KIdle /\ TIdle
SNext ==
    \/ SplitStart /\ SOthers
    \/ SplitStep /\ SOthers
    \/ SplitReturn /\ SOthers
SpecSplit == InitSplit /\ [][SNext]_vars

EOthers == UNCHANGED <<wvars, cvars, pvars, xvars, kvars, tvars, svars>>
InitEndToEnd == EInit /\ WIdle /\ CIdle /\ PIdle /\ XIdle /\ KIdle /\ TIdle /\ SIdle
ENext ==
    \/ DriftDataStep /\ DOthers
    \/ DriftConceptStep /\ DOthers
    \/ DriftDecide /\ DOthers
    \/ ERecordFlag /\ UNCHANGED dvars /\ EOthers
    \/ RunCheckRetrainDecision /\ ROthers
SpecEndToEnd == InitEndToEnd /\ [][ENext]_vars

\* =========================================================================
\* Properties
\* =========================================================================
\* the group the last iteration worked on
CurUserDf == UserDf(sorted_df, sorted_df[w_i].user_id)

\* C1: every emitted window with positive spans has obs_end = obs_start +
\* observation span and pred_end = obs_end + prediction span, and no event of
\* the entity is both in the observation window and in the label window:
\* every observed event is strictly earlier than every label event.
C1_WindowsDisjoint ==
    (w_i > 0 /\ observation_days > 0 /\ prediction_days > 0) =>
        /\ obs_end = obs_start + observation_days
        /\ pred_end = obs_end + prediction_days
        /\ samples[w_i].obs_start = obs_start
        /\ samples[w_i].obs_end = obs_start + observation_days
        /\ obs_window \cap pred_window = {}
        /\ \A j \in obs_window : \A k \in pred_window :
              CurUserDf[j].ts < CurUserDf[k].ts

\* C1 witness: a window whose observation and label windows both hold events
C1_Witness ==
    /\ w_i > 0 /\ observation_days > 0 /\ prediction_days > 0
    /\ obs_window # {} /\ pred_window # {}

\* the label the window anchored at time t of entity u must carry: 1 iff the
\* log holds a purchase of u in [t + observation span, t + observation span +
\* prediction span)
ExpectedLabel(u, t) ==
    IF \E p \in 1 .. Len(df) :
          /\ df[p].user_id = u
          /\ df[p].event = "purchase"
          /\ df[p].ts >= t + observation_days
          /\ df[p].ts < t + observation_days + prediction_days
    THEN 1 ELSE 0

\* C2: the window anchored at an event of an entity has label 1 iff that
\* entity has a purchase in the label interval, whatever other entities did;
\* and every event of the log has got its window when the function returns.
C2_LabelIffPurchaseInLabelWindow ==
    /\ \A k \in 1 .. Len(samples) :
          samples[k].label = ExpectedLabel(samples[k].user_id, samples[k].obs_start)
    /\ w_pc = "done" =>
          \A p \in 1 .. Len(df) : \E k \in 1 .. Len(samples) :
              /\ samples[k].user_id = df[p].user_id
              /\ samples[k].obs_start = df[p].ts
              /\ samples[k].label = ExpectedLabel(df[p].user_id, df[p].ts)

\* C2 witness: events at t=0 and t=2 (purchase) of one entity, spans 2 and 1:
\* the window anchored at 0 has label 1, since 2 falls in [2, 3)
C2_Witness ==
    /\ w_pc = "done" /\ observation_days = 2 /\ prediction_days = 1
    /\ \E k \in 1 .. Len(samples) :
          /\ samples[k].obs_start = 0 /\ samples[k].label = 1
          /\ \E p \in 1 .. Len(df) :
                df[p].user_id = samples[k].user_id /\ df[p].ts = 2 /\ df[p].event = "purchase"

\* the baseline_val the function computes from table t for the anchor d
BaselineOf(t, d) ==
    LET b == BaselineQuery(t, d) IN IF b # <<>> THEN b[1] ELSE PyNone

\* C3: the baseline depends only on the non-null values dated strictly before
\* the anchor: replacing the rows of any date >= anchor by anything (adding,
\* removing or changing a record), or dropping a NULL row dated before the
\* anchor, leaves the computed baseline as it is.
C3_BaselineUsesOnlyPast ==
    c_pc = "done" =>
        /\ \A d \in Dates : \A cell \in Cells :
              d >= current_date =>
                  BaselineOf([predict_table EXCEPT ![d] = cell], current_date) = baseline_val
        /\ \A d \in Dates :
              (d < current_date /\ predict_table[d] = <<None>>) =>
                  BaselineOf([predict_table EXCEPT ![d] = <<>>], current_date) = baseline_val

\* C3 witness: a defined baseline computed while the table holds a value at
\* the anchor date and at a later date
C3_Witness ==
    /\ c_pc = "done" /\ IsNum(baseline_val)
    /\ current_date < MaxDate
    /\ predict_table[current_date] \notin {<<>>, <<None>>}
    /\ predict_table[current_date + 1] \notin {<<>>, <<None>>}

\* a severity recorded as strong by the latest check of a log
StrongRecorded(log) ==
    /\ RowsOf(log) # {}
    /\ \E r \in RowsOf(log) :
          /\ r.drift_recommendation = "Strong"
          /\ \A q \in RowsOf(log) : q.date <= r.date

NoUsableSignal == RowsOf(data_drift_log) = {} /\ RowsOf(concept_drift_log) = {}

\* a log whose latest check found no drift
AllNoneLog == BagOf(<<[date |-> 1, drift_recommendation |-> "None"]>>)

\* C7 (as claimed): with no usable signal the decision step returns SKIP with
\* a marker, so that what it returns differs from what it returns when the
\* signals were checked and all were None.
C7_InsufficientEvidenceMarked ==
    (retrain_decision \notin {"pending", "idle"} /\ NoUsableSignal) =>
        /\ retrain_decision # "RETRAIN"
        /\ retrain_decision # CheckRetrainDecision(AllNoneLog, AllNoneLog, TRUE, TRUE)

\* severities, ordered NONE < WEAK < STRONG
SevRank(f) == IF f = "STRONG" THEN 2 ELSE IF f = "WEAK" THEN 1 ELSE 0
MaxSev(a, b) == IF SevRank(a) >= SevRank(b) THEN a ELSE b

\* the threshold policy for a stability index s (hundredths): STRONG iff
\* s > 0.2, WEAK iff 0.1 < s <= 0.2, NONE otherwise
PsiSeverity(n, d) ==
    IF n > 20 * d THEN "STRONG"
    ELSE IF n > 10 * d /\ n <= 20 * d THEN "WEAK" ELSE "NONE"

\* the threshold policy for a defined correlation c = cov / sqrt(vx * vy):
\* STRONG iff c < 0.1, WEAK iff 0.1 <= c < 0.3, NONE iff c >= 0.3
CorrLt(c, num, den) ==
    c.cov <= 0 \/ den * den * c.cov * c.cov < num * num * c.vx * c.vy
CorrSeverity(c) ==
    IF CorrLt(c, 1, 10) THEN "STRONG"
    ELSE IF CorrLt(c, 3, 10) THEN "WEAK" ELSE "NONE"

\* C5 (as claimed): the overall severity is the maximum of the severities of
\* all signals, each feature being its own signal; one feature with a
\* stability index above 0.2 makes the result STRONG.
C5_OverallIsMaxOfSignals ==
    d_pc = "done" =>
        ((\E j \in 1 .. Len(psi_scores) : PsiSeverity(psi_scores[j], 1) = "STRONG")
            => drift_flag = "STRONG")

\* C6: the flag is the higher of the two severities the threshold policy
\* gives: to the stability index (one feature's index s, in general the index
\* detect_drift thresholds) and to a defined correlation c; s = 0.2 is WEAK,
\* s = 0.1 is NONE.
C6_ThresholdPolicy ==
    (d_pc = "done" /\ correlation # NaN /\ psi_scores # <<>>) =>
        /\ Len(psi_scores) = 1 =>
              drift_flag = MaxSev(PsiSeverity(psi_scores[1], 1), CorrSeverity(correlation))
        /\ drift_flag = MaxSev(PsiSeverity(avg_psi.n, avg_psi.d), CorrSeverity(correlation))

\* C6 witness: one feature with s = 0.2 and a correlation of at least 0.3:
\* the flag is WEAK, on account of the index alone
C6_Witness ==
    /\ d_pc = "done" /\ psi_scores = <<20>> /\ correlation # NaN
    /\ CorrSeverity(correlation) = "NONE"
    /\ drift_flag = "WEAK"

\* a defined correlation that crosses no threshold (c = 1)
CalmCorrelation == [t |-> "corr", cov |-> 1, vx |-> 1, vy |-> 1]

\* C8 (as claimed): with an undefined correlation detect_drift returns, does
\* not answer STRONG on account of the correlation, and what it returns
\* differs from what it returns for a defined correlation crossing no
\* threshold.
C8_UndefinedCorrelationDistinguished ==
    (d_pc = "done" /\ correlation = NaN) =>
        /\ drift_flag \in {"NONE", "WEAK", "STRONG"}
        /\ drift_flag = "STRONG" => PsiAbove(avg_psi, PsiStrongPct)
        /\ drift_flag # DriftFlag(avg_psi, CalmCorrelation)

\* C9: calculate_psi returns a finite value >= 0: in every bucket the
\* logarithm is taken of a quotient of two strictly positive numbers, and the
\* term (baseline proportion - current proportion) * ln(quotient) is >= 0.
C9_PsiNonNegative ==
    p_pc = "done" =>
        /\ Len(psi_terms) = buckets
        /\ \A i \in 1 .. Len(psi_terms) : psi_terms[i].finite /\ psi_terms[i].sign >= 0
        /\ psi.finite /\ psi.sign \in {0, 1}
        /\ p_variant = "percentile" =>
              \A i \in 1 .. buckets :
                  /\ QuotPositive(Percents(Smoothed(expected_counts))[i])
                  /\ QuotPositive(Percents(Smoothed(actual_counts))[i])
        /\ p_variant = "scaled" =>
              \A i \in 1 .. buckets :
                  /\ QuotPositive(PlusEta(Bins(expected_counts, Len(expected))[i]))
                  /\ QuotPositive(PlusEta(Bins(actual_counts, Len(actual))[i]))

\* C9 witness: a positive index although a bucket of the current sample is
\* empty where the baseline's is not
C9_Witness ==
    /\ p_pc = "done" /\ psi.finite /\ psi.sign = 1
    /\ \E i \in 1 .. buckets : actual_counts[i] = 0 /\ expected_counts[i] > 0

\* C10: calculate_psi(S, S) is 0: every bucket has the same count in both
\* histograms, every term is 0 and so is the index.
C10_IdenticalSamplesGiveZero ==
    (p_pc = "done" /\ expected = actual) =>
        /\ expected_counts = actual_counts
        /\ \A i \in 1 .. Len(psi_terms) : psi_terms[i].finite /\ psi_terms[i].sign = 0
        /\ psi.finite /\ psi.sign = 0

\* C10 witness: the same sample of several distinct values on both sides,
\* with an empty bucket among several
C10_Witness ==
    /\ p_pc = "done" /\ expected = actual /\ buckets > 1
    /\ expected[1] # expected[Len(expected)]
    /\ \E i \in 1 .. buckets : expected_counts[i] = 0
    /\ psi.finite /\ psi.sign = 0

\* the current sample a is the baseline b with one constant c > 0 added to
\* each of its values
IsShifted(b, a) ==
    /\ Len(a) = Len(b)
    /\ \E c \in 1 .. MaxVal : \A j \in 1 .. Len(b) : a[j] = b[j] + c

\* C11 (as claimed): for the current sample B + c with c > 0 and several
\* buckets, the index is above the index of c = 0, which is 0.
C11_ShiftRaisesIndex ==
    (p_pc = "done" /\ buckets >= 2 /\ IsShifted(expected, actual)) =>
        psi.finite /\ psi.sign = 1

\* C12 (as claimed): in calculate_psi of components/drift.py every current
\* value is counted in exactly one bucket, a value below the baseline minimum
\* in the first and a value above the baseline maximum in the last, so the
\* raw current counts sum to the number of current values.
C12_EveryCurrentValueCounted ==
    (p_variant = "percentile" /\ p_pc \in {"binned", "done"}) =>
        /\ SumSeq(actual_counts) = Len(actual)
        /\ actual_counts[1] >=
              Cardinality({j \in 1 .. Len(actual) : actual[j] < expected[1]})
        /\ actual_counts[buckets] >=
              Cardinality({j \in 1 .. Len(actual) : actual[j] > expected[Len(expected)]})

\* the dates before the anchor that carry a non-null value
PriorDates ==
    {d \in Dates : d < current_date /\ predict_table[d] \notin {<<>>, <<None>>}}
\* the sum of their values (tenths)
PriorSum == SumOver(PriorDates, [d \in PriorDates |-> Val(predict_table[d][1])])
\* the anchor date carries a non-null value
AnchorHasValue == predict_table[current_date] \notin {<<>>, <<None>>}

\* C13: with a value at the anchor date and at least one non-null value before
\* it, the row written holds baseline_recall = the arithmetic mean of the prior
\* non-null values, current_recall = the anchor's value and recall_degradation
\* = baseline_recall - current_recall, which is positive exactly when the
\* current value is below the baseline.
C13_DegradationIsBaselineMinusCurrent ==
    (c_pc = "done" /\ AnchorHasValue /\ PriorDates # {}) =>
        LET n == Cardinality(PriorDates)
            v == Val(predict_table[current_date][1])
        IN  /\ baseline_val = Num(PriorSum, n)
            /\ current_val = Num(v, 1)
            /\ degradation = Num(PriorSum - v * n, n)
            /\ degradation.n > 0 <=> v * n < PriorSum
            /\ output_concept_drift =
                  <<[baseline_recall |-> Num(PriorSum, n), current_recall |-> Num(v, 1),
                     recall_degradation |-> Num(PriorSum - v * n, n)]>>

\* C13 witness: prior values 0.5, 0.6, 0.7 and 0.2 at the anchor: baseline 0.6,
\* degradation 0.4
C13_Witness ==
    /\ c_pc = "done" /\ current_date = 4
    /\ predict_table[1] = <<Some(5)>> /\ predict_table[2] = <<Some(6)>>
    /\ predict_table[3] = <<Some(7)>> /\ predict_table[4] = <<Some(2)>>
    /\ baseline_val = [t |-> "num", n |-> 6, d |-> 1]
    /\ degradation = [t |-> "num", n |-> 4, d |-> 1]

\* C14: with no record at the anchor date the function runs to its end and
\* the row written holds None for current_recall and for recall_degradation,
\* neither 0 nor any other number, whatever the history before the anchor.
C14_NoAnchorRecordIsUndefined ==
    (c_pc = "done" /\ predict_table[current_date] = <<>>) =>
        /\ current_val = PyNone
        /\ degradation = PyNone
        /\ Len(output_concept_drift) = 1
        /\ output_concept_drift[1].current_recall = PyNone
        /\ output_concept_drift[1].recall_degradation = PyNone

\* C14 witness: no record at the anchor date, values before it and a defined
\* baseline
C14_Witness ==
    /\ c_pc = "done" /\ predict_table[current_date] = <<>>
    /\ IsNum(baseline_val) /\ Cardinality(PriorDates) >= 2
    /\ output_concept_drift[1].recall_degradation = PyNone

\* the n most recent of the rows handed over in date order
LastN(rows, n) ==
    IF Len(rows) <= n THEN rows ELSE SubSeq(rows, Len(rows) - n + 1, Len(rows))

\* C15 (as claimed): the baseline is the mean of at most the BaselineLimit
\* most recent non-null observations dated before the anchor; older
\* observations do not affect it.
C15_BaselineOfMostRecent ==
    c_pc = "done" =>
        baseline_val = Avg(LastN(BaselineRows(predict_table, current_date), BaselineLimit))

\* C16 (as claimed): with an observation span <= 0 or a prediction span <= 0
\* the function fails with InvalidWindowSpec: handed a log with events, it
\* emits no window and does not return.
C16_InvalidSpansRejected ==
    (df # <<>> /\ (observation_days <= 0 \/ prediction_days <= 0)) =>
        /\ samples = <<>>
        /\ w_pc # "done"

\* the distinct values of a sample
DistinctValues(x) == {x[j] : j \in 1 .. Len(x)}

\* C17 (as claimed): calculate_psi of components/drift.py, handed a baseline
\* with fewer than buckets + 1 distinct values, fails with
\* DegenerateDistribution and returns no number.
C17_DegenerateBaselineRejected ==
    (p_variant = "percentile" /\ Cardinality(DistinctValues(expected)) < buckets + 1) =>
        p_pc # "done"

\* C18 (as claimed): no step of generate_time_series_labels changes the
\* caller's event log: the rows of a log with events, their order and every
\* column, the timestamp column included, stay as they were handed in.
C18_InputLogUnchanged ==
    [][df # <<>> => (df' = df /\ df_ts_dtype' = df_ts_dtype)]_vars

\* C19 (as claimed): no two emitted windows have the same user_id and the
\* same obs_start.
C19_OneWindowPerAnchor ==
    \A j, k \in 1 .. Len(samples) :
        (samples[j].user_id = samples[k].user_id /\ samples[j].obs_start = samples[k].obs_start)
            => j = k

\* stability indexes above the STRONG threshold (hundredths)
StrongPsiValues == {x \in PsiValues : x > PsiStrongPct} \cup {PsiStrongPct + 1}

\* C20: when detect_drift answers NONE or WEAK for a set of signals, its
\* answer for the same signals and one more feature whose stability index is
\* above 0.2 is not lower.
C20_SeverityMonotonic ==
    (d_pc = "done" /\ drift_flag \in {"NONE", "WEAK"}) =>
        \A x \in StrongPsiValues :
            SevRank(DriftFlag(Mean(Append(psi_scores, x)), correlation)) >= SevRank(drift_flag)

\* C20 witness: a WEAK answer for two features and a calm correlation that
\* stays WEAK, and does not fall, when a feature with index 0.3 is added
C20_Witness ==
    /\ d_pc = "done" /\ drift_flag = "WEAK" /\ Len(psi_scores) = 2
    /\ correlation # NaN /\ CorrSeverity(correlation) = "NONE"
    /\ DriftFlag(Mean(Append(psi_scores, 30)), correlation) = "WEAK"

\* the flag a check returns when it runs alone: from the scores of its own
\* prediction date
AloneFlag(c) ==
    DriftFlag(Mean(x_psi[c]),
              Pearson(x_blob[c], x_label[c], InnerJoin(x_blob[c], x_label[c])))

\* C21: two concurrent checks for different prediction dates do not
\* interfere: under every interleaving each check computes its correlation
\* from the scores of its own date and returns the flag it returns when run
\* alone.
C21_ConcurrentChecksIndependent ==
    \A c \in Checks : x_pc[c] = "done" => x_flag[c] = AloneFlag(c)

Executed(task) == task \in {"running", "succeeded", "failed"}

\* C22: in every run of the retrain pipeline the feature step and the
\* training trigger execute only if check_drift_decision returned RETRAIN,
\* the trigger starts only after the feature step has completed
\* successfully, and when the decision is SKIP neither of them executes.
C22_RetrainGatedOnDecision ==
    /\ Executed(k_fe) => drift_decision = "RETRAIN"
    /\ Executed(k_trigger) => (drift_decision = "RETRAIN" /\ k_fe = "succeeded")
    /\ drift_decision = "SKIP" => (~Executed(k_fe) /\ ~Executed(k_trigger))

\* C22 witness: a run with decision RETRAIN in which the trigger has run
\* after the feature step succeeded
C22_Witness ==
    /\ drift_decision = "RETRAIN" /\ k_fe = "succeeded" /\ k_trigger = "succeeded"

C24_SplitsLeakageSafe ==
    \A k \in 1 .. Len(splits) :
        /\ splits[k].train \cap splits[k].test = {}
        /\ \A r \in splits[k].test : \A q \in splits[k].train : s_df[r] > s_df[q]

\* the log holds a 'Strong' row whose date is the latest date of the log
StrongAtLatest(log) ==
    \E r \in RowsOf(log) :
        /\ r.drift_recommendation = "Strong"
        /\ \A q \in RowsOf(log) : q.date <= r.date

\* the log holds a 'Strong' row, and all its 'Strong' rows are older than
\* its latest row
StrongOnlyInOlderRows(log) ==
    /\ \E r \in RowsOf(log) : r.drift_recommendation = "Strong"
    /\ ~StrongAtLatest(log)

\* C25: the retrain decision depends only on the rows of each log that carry
\* that log's own maximum date: it is RETRAIN exactly when the data log or
\* the concept log has a 'Strong' row at its latest date, so a 'Strong' in an
\* older row never produces RETRAIN; and the check run again on the same
\* logs returns the decision it returned.
C25_DecisionFromLatestRowsOnly ==
    (data_table_ok /\ concept_table_ok) =>
        /\ retrain_decision \in {"RETRAIN", "SKIP"} =>
              /\ retrain_decision = "RETRAIN" <=>
                    (StrongAtLatest(data_drift_log) \/ StrongAtLatest(concept_drift_log))
              /\ retrain_decision = CheckRetrainDecision(data_drift_log, concept_drift_log,
                                                         data_table_ok, concept_table_ok)
        /\ drift_decision \in {"RETRAIN", "SKIP"} =>
              /\ drift_decision = "RETRAIN" <=>
                    (StrongAtLatest(data_drift_log) \/ StrongAtLatest(concept_drift_log))
              /\ drift_decision = CheckDriftDecision(data_drift_log, concept_drift_log,
                                                     data_table_ok, concept_table_ok)

\* C25 witness: both logs hold a 'Strong' row, in each older than the log's
\* latest row, the two latest dates differ, and the decision is SKIP
C25_Witness ==
    /\ data_table_ok /\ concept_table_ok
    /\ StrongOnlyInOlderRows(data_drift_log)
    /\ StrongOnlyInOlderRows(concept_drift_log)
    /\ retrain_decision = "SKIP" /\ drift_decision = "SKIP"

\* C26: check_retrain_decision is total: whatever the logs hold, and also
\* when a table or the drift_recommendation column is missing, it returns
\* 'RETRAIN' or 'SKIP' and does not raise; on such a failure it returns 'SKIP'.
C26_RetrainDecisionTotal ==
    retrain_decision # "pending" =>
        /\ retrain_decision \in {"RETRAIN", "SKIP"}
        /\ (~data_table_ok \/ ~concept_table_ok) => retrain_decision = "SKIP"

\* C26 witness: the concept log cannot be queried while the data log holds a
\* 'Strong' latest row, and the answer is SKIP
C26_Witness ==
    /\ data_table_ok /\ ~concept_table_ok
    /\ StrongAtLatest(data_drift_log)
    /\ retrain_decision = "SKIP"

\* C27: on logs that both implementations can query, check_drift_decision
\* and check_retrain_decision return the same value, also for an empty log
\* and for several rows at the latest date.
C27_ImplementationsAgree ==
    (/\ data_table_ok /\ concept_table_ok
     /\ retrain_decision # "pending" /\ drift_decision # "pending") =>
        retrain_decision = drift_decision

\* C27 witness: the data log holds two 'Strong' rows at its latest date, the
\* concept log is empty, and both implementations answered RETRAIN
C27_Witness ==
    /\ data_table_ok /\ concept_table_ok
    /\ \E d \in LogDates : data_drift_log[[date |-> d, drift_recommendation |-> "Strong"]] = 2
    /\ concept_drift_log = EmptyLog
    /\ retrain_decision = "RETRAIN" /\ drift_decision = "RETRAIN"

\* C28: the severity vocabulary is consistent from the drift check to the
\* decision: once the flag returned by detect_drift is the
\* drift_recommendation of the latest row of the data-drift log,
\* check_retrain_decision returns RETRAIN if the flag is 'STRONG', and SKIP
\* if it is 'WEAK' or 'NONE' (the other log holding no 'Strong' latest row).
C28_VocabularyConsistent ==
    (d_pc = "done" /\ retrain_decision \in {"RETRAIN", "SKIP"}) =>
        /\ drift_flag = "STRONG" => retrain_decision = "RETRAIN"
        /\ (drift_flag \in {"WEAK", "NONE"} /\ ~StrongAtLatest(concept_drift_log)) =>
              retrain_decision = "SKIP"

====
